---- MODULE Spec2Model ----
(***************************************************************************)
(* Model of the xi2 document core:                                         *)
(*   - the layout rope (xi-druid/src/layout_rope.rs, height_rope.rs), a    *)
(*     xi_rope tree of (Height, Layout) pairs indexed by count and by      *)
(*     accumulated height;                                                 *)
(*   - the edit requests of xi-text-core/src/edit.rs;                      *)
(*   - the movements of xi-text-core/src/movement.rs over a Measurement.   *)
(* A rope element is represented by its Height (raw fraction, a natural    *)
(* number): the Layout payload is only ever read through its height.       *)
(***************************************************************************)
EXTENDS Integers, Sequences, FiniteSets, TLC

VARIABLES rope, list, text, sel, req, it, lf, meas, mv, wg

ropeVars == <<rope, list>>
editVars == <<text, sel, req>>
iterVars == <<it, lf>>
moveVars == <<meas, mv>>
vars == <<rope, list, text, sel, req, it, lf, meas, mv, wg>>

----------------------------------------------------------------------------
(* Bounds of the model *)

\* longest rope the mutators build
MaxLen == 34
\* longest text an editor starts on
MaxInitLen == 10
\* longest text an edit may produce
MaxTextLen == 12
\* most regions of a selection an editor starts on
MaxRegions == 2
\* longest text of one Insert
MaxInsert == 1
\* most zero-height layouts a rope holds at once
MaxZero == 1
\* most logical lines of a text that is moved in
MaxLines == 2
\* most characters of a logical line of such a text
MaxLineLen == 2
\* widest line a measurement lays out without wrapping
MaxWrap == 2
\* largest horizontal position a region starts with
MaxHoriz == 1
\* longest run of vertical moves that is counted
MaxRun == 2
\* longest rope that is iterated over from every start to every end
MaxIterLen == 36
\* length of the rope of three levels that is iterated over
DeepLen == 150
\* longest leaf handed to push_maybe_split, as self or as other
MaxLeafIn == 33
\* longest leaf the height metric scans
MaxScanLen == 3
\* largest budget of raw height units of such a scan
MaxBudget == 7
\* longest text the keys of the widget type
MaxWidgetLen == 5

(* Program constants *)
MIN_LEAF == 16
MAX_LEAF == 32
MIN_CHILDREN == 4
MAX_CHILDREN == 8

\* the heights (raw fractions) a layout may have: zero-height layouts are
\* legal, and a positive height spans more than one raw unit
Heights == {0, 2}

Min(a, b) == IF a < b THEN a ELSE b
Max(a, b) == IF a > b THEN a ELSE b

RECURSIVE SumSeq(_)
SumSeq(s) == IF s = <<>> THEN 0 ELSE Head(s) + SumSeq(Tail(s))

----------------------------------------------------------------------------
(* LayoutLeaf / LayoutInfo: layout_rope.rs 109-152 *)

\* The mutation of compute_info whose loop starts at the second pair.
compute_info_skipfirst(data) == SumSeq(SubSeq(data, 2, Len(data)))

\* NodeInfo::compute_info: the sum of the heights of a leaf
compute_info(data) == SumSeq(data)

\* The mutation of is_ok_child that tests the upper bound of a leaf.
leaf_is_ok_child_max(data) == Len(data) <= MAX_LEAF

\* Leaf::is_ok_child
leaf_is_ok_child(data) == Len(data) >= MIN_LEAF

\* The mutation of push_maybe_split that keeps a full leaf and splits off
\* what is beyond it.
push_maybe_split_full(self, other, start, end) ==
    LET all == self \o SubSeq(other, start + 1, end) IN
    IF Len(all) <= MAX_LEAF
    THEN [left |-> all, split |-> FALSE, right |-> <<>>]
    ELSE [left |-> SubSeq(all, 1, MAX_LEAF), split |-> TRUE,
          right |-> SubSeq(all, MAX_LEAF + 1, Len(all))]

\* Leaf::push_maybe_split(&mut self, other, iv): self after the call in
\* `left`, the returned Option<Self> in `split`/`right`.
push_maybe_split(self, other, start, end) ==
    LET all == self \o SubSeq(other, start + 1, end) IN
    IF Len(all) <= MAX_LEAF
    THEN [left |-> all, split |-> FALSE, right |-> <<>>]
    ELSE LET splitpoint == Len(all) \div 2 IN
         [left |-> SubSeq(all, 1, splitpoint), split |-> TRUE,
          right |-> SubSeq(all, splitpoint + 1, Len(all))]

\* Leaf::subseq (xi_rope default method): a fresh leaf holding other[start..end]
leaf_subseq(other, start, end) == push_maybe_split(<<>>, other, start, end).left

----------------------------------------------------------------------------
(* xi_rope::tree::Node as used by LayoutRope *)

from_leaf(l) ==
    [height |-> 0, len |-> Len(l), info |-> compute_info(l),
     data |-> l, children |-> <<>>]

RECURSIVE SumLen(_)
SumLen(nodes) == IF nodes = <<>> THEN 0 ELSE Head(nodes).len + SumLen(Tail(nodes))

\* NodeInfo::accumulate folded over the children
RECURSIVE accumulate(_)
accumulate(nodes) == IF nodes = <<>> THEN 0 ELSE Head(nodes).info + accumulate(Tail(nodes))

from_nodes(nodes) ==
    [height |-> nodes[1].height + 1, len |-> SumLen(nodes),
     info |-> accumulate(nodes), data |-> <<>>, children |-> nodes]

is_ok_child(n) ==
    IF n.height = 0 THEN leaf_is_ok_child(n.data)
    ELSE Len(n.children) >= MIN_CHILDREN

merge_nodes(children1, children2) ==
    LET all == children1 \o children2
        n_children == Len(all) IN
    IF n_children <= MAX_CHILDREN
    THEN from_nodes(all)
    ELSE LET splitpoint == Min(MAX_CHILDREN, n_children - MIN_CHILDREN) IN
         from_nodes(<<from_nodes(SubSeq(all, 1, splitpoint)),
                      from_nodes(SubSeq(all, splitpoint + 1, n_children))>>)

merge_leaves(rope1, rope2) ==
    IF leaf_is_ok_child(rope1.data) /\ leaf_is_ok_child(rope2.data)
    THEN from_nodes(<<rope1, rope2>>)
    ELSE LET r == push_maybe_split(rope1.data, rope2.data, 0, Len(rope2.data)) IN
         IF r.split
         THEN from_nodes(<<from_leaf(r.left), from_leaf(r.right)>>)
         ELSE from_leaf(r.left)

RECURSIVE concat(_, _)
concat(rope1, rope2) ==
    LET h1 == rope1.height
        h2 == rope2.height IN
    IF h1 < h2 THEN
        LET children2 == rope2.children IN
        IF h1 = h2 - 1 /\ is_ok_child(rope1)
        THEN merge_nodes(<<rope1>>, children2)
        ELSE LET newrope == concat(rope1, children2[1]) IN
             IF newrope.height = h2 - 1
             THEN merge_nodes(<<newrope>>, Tail(children2))
             ELSE merge_nodes(newrope.children, Tail(children2))
    ELSE IF h1 = h2 THEN
        IF is_ok_child(rope1) /\ is_ok_child(rope2)
        THEN from_nodes(<<rope1, rope2>>)
        ELSE IF h1 = 0 THEN merge_leaves(rope1, rope2)
        ELSE merge_nodes(rope1.children, rope2.children)
    ELSE
        LET children1 == rope1.children
            lastix == Len(children1)
            front == SubSeq(children1, 1, lastix - 1) IN
        IF h2 = h1 - 1 /\ is_ok_child(rope2)
        THEN merge_nodes(children1, <<rope2>>)
        ELSE LET newrope == concat(children1[lastix], rope2) IN
             IF newrope.height = h1 - 1
             THEN merge_nodes(front, <<newrope>>)
             ELSE merge_nodes(front, newrope.children)

----------------------------------------------------------------------------
(* xi_rope::tree::TreeBuilder: a stack of vectors of nodes *)

tb_new == <<>>

\* TreeBuilder::pop: the last vector of the stack as one node
tb_pop_node(stack) ==
    LET nodes == stack[Len(stack)] IN
    IF Len(nodes) = 1 THEN nodes[1] ELSE from_nodes(nodes)

tb_pop_rest(stack) == SubSeq(stack, 1, Len(stack) - 1)

\* the Equal arm of TreeBuilder::push: n joins the top vector `tos`
tb_push_equal(tos, n) ==
    LET lastn == tos[Len(tos)] IN
    IF is_ok_child(lastn) /\ is_ok_child(n)
    THEN Append(tos, n)
    ELSE IF n.height = 0
    THEN LET r == push_maybe_split(lastn.data, n.data, 0, n.len)
             front == SubSeq(tos, 1, Len(tos) - 1) IN
         IF r.split
         THEN front \o <<from_leaf(r.left), from_leaf(r.right)>>
         ELSE Append(front, from_leaf(r.left))
    ELSE LET front == SubSeq(tos, 1, Len(tos) - 1)
             all == lastn.children \o n.children
             n_children == Len(all) IN
         IF n_children <= MAX_CHILDREN
         THEN Append(front, from_nodes(all))
         ELSE LET splitpoint == Min(MAX_CHILDREN, n_children - MIN_CHILDREN) IN
              front \o <<from_nodes(SubSeq(all, 1, splitpoint)),
                         from_nodes(SubSeq(all, splitpoint + 1, n_children))>>

RECURSIVE tb_push(_, _)
tb_push(stack, n) ==
    IF stack = <<>> THEN <<<<n>>>>
    ELSE LET top == stack[Len(stack)]
             th == top[1].height IN
         IF th < n.height
         THEN tb_push(tb_pop_rest(stack), concat(tb_pop_node(stack), n))
         ELSE IF th = n.height
         THEN LET tos == tb_push_equal(top, n)
                  stack2 == Append(tb_pop_rest(stack), tos) IN
              IF Len(tos) < MAX_CHILDREN
              THEN stack2
              ELSE tb_push(tb_pop_rest(stack2), tb_pop_node(stack2))
         ELSE Append(stack, <<n>>)

tb_push_leaf(stack, l) == tb_push(stack, from_leaf(l))

RECURSIVE tb_build_loop(_, _)
tb_build_loop(stack, n) ==
    IF stack = <<>> THEN n
    ELSE tb_build_loop(tb_pop_rest(stack), concat(tb_pop_node(stack), n))

tb_build(stack) ==
    IF stack = <<>> THEN from_leaf(<<>>)
    ELSE tb_build_loop(tb_pop_rest(stack), tb_pop_node(stack))

\* Node::push_subseq(&self, b, iv) with iv = [start, end)
RECURSIVE node_push_subseq(_, _, _, _)
RECURSIVE push_subseq_children(_, _, _, _, _, _)
node_push_subseq(node, b, start, end) ==
    IF start >= end THEN b
    ELSE IF start = 0 /\ end = node.len THEN tb_push(b, node)
    ELSE IF node.height = 0
    THEN tb_push(b, from_leaf(leaf_subseq(node.data, start, end)))
    ELSE push_subseq_children(node.children, 1, 0, b, start, end)

push_subseq_children(children, i, offset, b, start, end) ==
    IF i > Len(children) \/ end <= offset THEN b
    ELSE LET child == children[i]
             s == Max(start, offset)
             e == Max(s, Min(end, offset + child.len)) IN
         push_subseq_children(children, i + 1, offset + child.len,
             node_push_subseq(child, b, s - offset, e - offset), start, end)

\* Node::subseq(iv)
subseq(node, start, end) == tb_build(node_push_subseq(node, tb_new, start, end))

----------------------------------------------------------------------------
(* Metrics: layout_rope.rs 315-391.  "Base" counts layouts, "Height" sums   *)
(* raw height fractions.                                                    *)

\* The mutation of HeightMetric::measure that answers as BaseMetric does.
measure_len(M, node) == node.len

measure(M, node) == IF M = "Height" THEN node.info ELSE node.len

\* The mutation of HeightMetric::can_fragment that answers as BaseMetric does.
can_fragment_never(M) == FALSE

can_fragment(M) == M = "Height"

\* HeightMetric::from_base_units: the height of the first in_base_units layouts
height_from_base_units(l, in_base_units) == SumSeq(SubSeq(l, 1, in_base_units))

\* The mutation of the scan that stops on a layout as high as the budget.
RECURSIVE height_scan_le(_, _, _, _)
height_scan_le(l, i, m1, m2) ==
    IF i > Len(l) THEN m2
    ELSE IF m1 = 0 \/ m1 <= l[i] THEN m2
    ELSE height_scan_le(l, i + 1, m1 - l[i], m2 + 1)

\* the loop of HeightMetric::to_base_units, about to look at l[i]
RECURSIVE height_scan(_, _, _, _)
height_scan(l, i, m1, m2) ==
    IF i > Len(l) THEN m2
    ELSE IF m1 = 0 \/ m1 < l[i] THEN m2
    ELSE height_scan(l, i + 1, m1 - l[i], m2 + 1)

\* The mutation of the scan that goes on over a layout of no height when
\* the budget is used up.
RECURSIVE height_scan_exceed(_, _, _, _)
height_scan_exceed(l, i, m1, m2) ==
    IF i > Len(l) THEN m2
    ELSE IF m1 < l[i] THEN m2
    ELSE height_scan_exceed(l, i + 1, m1 - l[i], m2 + 1)

height_to_base_units_exceed(l, in_measured_units) ==
    height_scan_exceed(l, 1, in_measured_units, 0)

\* HeightMetric::to_base_units
height_to_base_units(l, in_measured_units) == height_scan(l, 1, in_measured_units, 0)

to_base_units(M, l, u) == IF M = "Height" THEN height_to_base_units(l, u) ELSE u

from_base_units(M, l, b) == IF M = "Height" THEN height_from_base_units(l, b) ELSE b

\* The loops of Node::convert_metrics: `while node.height() > 0 { for child
\* in node.get_children() { .. } }`, about to look at child i of node.  A for
\* loop that runs out of children leaves node as it is, and the while loop
\* starts over with the reduced m1.
RECURSIVE cm_loop(_, _, _, _, _, _)
cm_loop(M1, M2, node, i, m1, m2) ==
    IF node.height = 0
    THEN m2 + from_base_units(M2, node.data, to_base_units(M1, node.data, m1))
    ELSE IF i > Len(node.children) THEN cm_loop(M1, M2, node, 1, m1, m2)
    ELSE LET child == node.children[i]
             child_m1 == measure(M1, child)
             m1_fudge == IF can_fragment(M1) THEN 1 ELSE 0 IN
         IF m1 < child_m1 + m1_fudge
         THEN cm_loop(M1, M2, child, 1, m1, m2)
         ELSE cm_loop(M1, M2, node, i + 1, m1 - child_m1, m2 + measure(M2, child))

convert_metrics(M1, M2, node, m1) ==
    IF m1 = 0 THEN 0 ELSE cm_loop(M1, M2, node, 1, m1, 0)

\* Node::count::<HeightMetric> and Node::count_base_units::<HeightMetric>
count(node, offset) == convert_metrics("Base", "Height", node, offset)
count_base_units(node, offset) == convert_metrics("Height", "Base", node, offset)

----------------------------------------------------------------------------
(* xi_rope::tree::Cursor::new(node, position) followed by get_leaf *)

RECURSIVE cursor_descend(_, _, _)
RECURSIVE cursor_child(_, _, _, _)
cursor_descend(node, offset, position) ==
    IF node.height = 0 THEN [leaf |-> node.data, offset_of_leaf |-> offset]
    ELSE cursor_child(node.children, 1, offset, position)

cursor_child(children, i, offset, position) ==
    IF i = Len(children) \/ offset + children[i].len > position
    THEN cursor_descend(children[i], offset, position)
    ELSE cursor_child(children, i + 1, offset + children[i].len, position)

----------------------------------------------------------------------------
(* LayoutRope: layout_rope.rs 160-261 (Vector: height_rope.rs 135-192) *)

None == [some |-> FALSE, val |-> 0]
Some(v) == [some |-> TRUE, val |-> v]

rope_len(r) == r.len

rope_height(r) == measure("Height", r)

singleton_leaf(item) == <<item>>

singleton(item) == from_leaf(singleton_leaf(item))

\* get: the pair at index, or None
get(r, index) ==
    LET c == cursor_descend(r, 0, index)
        offset == index - c.offset_of_leaf IN
    IF offset < Len(c.leaf) THEN Some(c.leaf[offset + 1]) ELSE None

push(r, item) == concat(r, singleton(item))

rope_push_subseq(r, b, start, end) == tb_push(b, subseq(r, start, end))

remove(r, index) ==
    LET b1 == rope_push_subseq(r, tb_new, 0, index)
        b2 == rope_push_subseq(r, b1, index + 1, rope_len(r)) IN
    tb_build(b2)

set(r, index, item) ==
    LET b1 == rope_push_subseq(r, tb_new, 0, index)
        b2 == tb_push_leaf(b1, singleton_leaf(item))
        b3 == rope_push_subseq(r, b2, index + 1, rope_len(r)) IN
    tb_build(b3)

\* The mutation of insert that puts the new layout after the one at index.
insert_after(r, index, value) ==
    LET at == Min(index + 1, rope_len(r))
        b1 == rope_push_subseq(r, tb_new, 0, at)
        b2 == tb_push_leaf(b1, singleton_leaf(value))
        b3 == rope_push_subseq(r, b2, at, rope_len(r)) IN
    tb_build(b3)

insert(r, index, value) ==
    LET b1 == rope_push_subseq(r, tb_new, 0, index)
        b2 == tb_push_leaf(b1, singleton_leaf(value))
        b3 == rope_push_subseq(r, b2, index, rope_len(r)) IN
    tb_build(b3)

height_of_index(r, index) == count(r, index)

index_of_height(r, height) == count_base_units(r, height)

\* the leaves of a tree, left to right
RECURSIVE Leaves(_)
RECURSIVE LeavesOf(_)
Leaves(node) == IF node.height = 0 THEN <<node.data>> ELSE LeavesOf(node.children)
LeavesOf(nodes) == IF nodes = <<>> THEN <<>> ELSE Leaves(Head(nodes)) \o LeavesOf(Tail(nodes))

\* the layouts of a tree, in order
RECURSIVE Flatten(_)
Flatten(leaves) == IF leaves = <<>> THEN <<>> ELSE Head(leaves) \o Flatten(Tail(leaves))

Elements(r) == Flatten(Leaves(r))

----------------------------------------------------------------------------
(* xi_rope::tree::Cursor with its cache of (node, child index) pairs, one   *)
(* per level above the leaf, and the ChunkIter of layout_rope.rs 296-313    *)
(* (height_rope.rs 206-223) that walks it.                                  *)

CURSOR_CACHE_SIZE == 4

NoCache == [k \in 1..CURSOR_CACHE_SIZE |-> None]

\* Cursor::descend, at node with offset layouts to its left
RECURSIVE descend_from(_, _, _, _)
RECURSIVE descend_child(_, _, _, _, _)
descend_from(node, offset, position, cache) ==
    IF node.height = 0
    THEN [position |-> position, leaf |-> Some(node.data),
          offset_of_leaf |-> offset, cache |-> cache]
    ELSE descend_child(node, 0, offset, position, cache)

\* the inner loop of Cursor::descend, about to look at child i (from 0)
descend_child(node, i, offset, position, cache) ==
    LET children == node.children
        nextoff == offset + children[i + 1].len IN
    IF i + 1 = Len(children) \/ nextoff > position
    THEN LET cache_ix == node.height - 1
             slot == IF cache_ix < CURSOR_CACHE_SIZE
                     THEN [cache EXCEPT ![cache_ix + 1] = Some([node |-> node, j |-> i])]
                     ELSE cache IN
         descend_from(children[i + 1], offset, position, slot)
    ELSE descend_child(node, i + 1, nextoff, position, cache)

\* Cursor::descend
descend(root, c) == descend_from(root, 0, c.position, c.cache)

\* Cursor::new
cursor_new(root, position) == descend_from(root, 0, position, NoCache)

\* Cursor::pos
cursor_pos(c) == c.position

\* Cursor::get_leaf: the leaf and the cursor's place in it
cursor_get_leaf(c) ==
    IF c.leaf.some
    THEN Some([leaf |-> c.leaf.val, start_pos |-> c.position - c.offset_of_leaf])
    ELSE None

\* the loop of Cursor::next_leaf that resets the cache below level i to the
\* leftmost path under node_down, about to set level k - 1
RECURSIVE leftmost(_, _, _)
leftmost(c, node_down, k) ==
    IF k = 0
    THEN [c EXCEPT !.leaf = Some(node_down.data), !.offset_of_leaf = c.position]
    ELSE leftmost([c EXCEPT !.cache[k] = Some([node |-> node_down, j |-> 0])],
                  node_down.children[1], k - 1)

\* the loop of Cursor::next_leaf over the levels of the cache, at level i
RECURSIVE next_leaf_level(_, _, _)
next_leaf_level(root, c, i) ==
    IF i >= CURSOR_CACHE_SIZE
    THEN IF c.offset_of_leaf + Len(c.leaf.val) = root.len
         THEN [c EXCEPT !.leaf = None]
         ELSE descend(root, c)
    ELSE IF ~c.cache[i + 1].some THEN [c EXCEPT !.leaf = None]
    ELSE LET node == c.cache[i + 1].val.node
             j == c.cache[i + 1].val.j IN
         IF j + 1 < Len(node.children)
         THEN leftmost([c EXCEPT !.cache[i + 1] = Some([node |-> node, j |-> j + 1])],
                       node.children[j + 2], i)
         ELSE next_leaf_level(root, c, i + 1)

\* Cursor::next_leaf: the cursor at the start of the next leaf, or without
\* a leaf past the last one
next_leaf(root, c) ==
    IF ~c.leaf.some THEN c
    ELSE next_leaf_level(
             root, [c EXCEPT !.position = c.offset_of_leaf + Len(c.leaf.val)], 0)

\* LayoutRope::iter_chunks over the interval [start, end)
iter_chunks(r, start, end) == [cursor |-> cursor_new(r, start), end |-> end]

\* The mutation of ChunkIter::next that hands out a leaf to its end.
chunk_next_whole(root, self) ==
    IF cursor_pos(self.cursor) >= self.end
    THEN [iter |-> self, item |-> None, panic |-> FALSE]
    ELSE LET got == cursor_get_leaf(self.cursor) IN
         IF ~got.some THEN [iter |-> self, item |-> None, panic |-> TRUE]
         ELSE [iter |-> [self EXCEPT !.cursor = next_leaf(root, self.cursor)],
               item |-> Some(SubSeq(got.val.leaf, got.val.start_pos + 1,
                                    Len(got.val.leaf))),
               panic |-> FALSE]

\* ChunkIter::next: the iterator it leaves and the item it returns; a
\* missing leaf makes the unwrap panic
chunk_next(root, self) ==
    IF cursor_pos(self.cursor) >= self.end
    THEN [iter |-> self, item |-> None, panic |-> FALSE]
    ELSE LET got == cursor_get_leaf(self.cursor) IN
         IF ~got.some THEN [iter |-> self, item |-> None, panic |-> TRUE]
         ELSE LET leaf == got.val.leaf
                  start_pos == got.val.start_pos
                  len == Min(self.end - cursor_pos(self.cursor), Len(leaf) - start_pos) IN
              [iter |-> [self EXCEPT !.cursor = next_leaf(root, self.cursor)],
               item |-> Some(SubSeq(leaf, start_pos + 1, start_pos + len)),
               panic |-> FALSE]

----------------------------------------------------------------------------
(* Selections: SelRegion { start, end, horiz } and Selection, a sorted      *)
(* vector of regions (xi-text-core, selection module).                      *)

SelRegion(start, end) == [start |-> start, end |-> end, horiz |-> None]

Caret(offset) == SelRegion(offset, offset)

region_min(r) == Min(r.start, r.end)

region_max(r) == Max(r.start, r.end)

is_caret(r) == r.start = r.end

\* the engine invariant of a selection over a text of length n: regions in
\* ascending order and apart from each other
ValidSelection(s, n) ==
    /\ \A i \in 1..Len(s) : region_max(s[i]) <= n
    /\ \A i \in 1..(Len(s) - 1) : region_max(s[i]) < region_min(s[i + 1])

----------------------------------------------------------------------------
(* xi_rope::delta: DeltaBuilder and Delta, as edit.rs uses them.  A delta   *)
(* is a sequence of Copy(from, to) and Insert(rope) elements over a base    *)
(* of base_len characters.                                                  *)

Copy(from, to) == [kind |-> "Copy", from |-> from, to |-> to, rope |-> <<>>]

InsertEl(r) == [kind |-> "Insert", from |-> 0, to |-> 0, rope |-> r]

db_new(base_len) == [els |-> <<>>, base_len |-> base_len, last_offset |-> 0]

\* DeltaBuilder::delete(iv); the builder asserts start >= last_offset
db_delete(b, start, end) ==
    [b EXCEPT !.els = IF start > b.last_offset
                      THEN Append(@, Copy(b.last_offset, start)) ELSE @,
              !.last_offset = end]

\* DeltaBuilder::replace(iv, rope)
db_replace(b, start, end, r) ==
    LET d == db_delete(b, start, end) IN
    IF r # <<>> THEN [d EXCEPT !.els = Append(@, InsertEl(r))] ELSE d

\* DeltaBuilder::is_empty: would the delta be a no-op if built
db_is_empty(b) == b.last_offset = 0 /\ b.els = <<>>

\* DeltaBuilder::build
db_build(b) ==
    [els |-> IF b.last_offset < b.base_len
             THEN Append(b.els, Copy(b.last_offset, b.base_len)) ELSE b.els,
     base_len |-> b.base_len]

\* Delta::apply(base)
RECURSIVE delta_apply_from(_, _, _)
delta_apply_from(els, i, base) ==
    IF i > Len(els) THEN <<>>
    ELSE (IF els[i].kind = "Copy"
          THEN SubSeq(base, els[i].from + 1, els[i].to)
          ELSE els[i].rope) \o delta_apply_from(els, i + 1, base)

delta_apply(delta, base) == delta_apply_from(delta.els, 1, base)

\* Rope::prev_grapheme_offset: every character of the model is one grapheme
prev_grapheme_offset(t, offset) == IF offset = 0 THEN None ELSE Some(offset - 1)

----------------------------------------------------------------------------
(* Edit requests: xi-text-core/src/edit.rs *)

\* EditRequest::new_edit
new_edit(delta, edit_type) ==
    [edit |-> [some |-> TRUE, delta |-> delta, edit_type |-> edit_type],
     new_sel |-> None]

\* EditRequest::nop
nop ==
    [edit |-> [some |-> FALSE, delta |-> db_build(db_new(0)), edit_type |-> "Other"],
     new_sel |-> None]

\* The mutation of the loop that takes the interval from start to end.
RECURSIVE insert_regions_startend(_, _, _, _)
insert_regions_startend(builder, s, i, r) ==
    IF i > Len(s) THEN builder
    ELSE insert_regions_startend(
             db_replace(builder, s[i].start, s[i].end, r), s, i + 1, r)

\* the loop of EditCtx::insert, about to look at region i
RECURSIVE insert_regions(_, _, _, _)
insert_regions(builder, s, i, r) ==
    IF i > Len(s) THEN builder
    ELSE insert_regions(
             db_replace(builder, region_min(s[i]), region_max(s[i]), r), s, i + 1, r)

\* The mutation of insert that edits at the first region only.
edit_insert_first(t, s, r) ==
    LET first == IF s = <<>> THEN s ELSE <<s[1]>> IN
    new_edit(db_build(insert_regions(db_new(Len(t)), first, 1, r)), "InsertChars")

\* EditCtx::insert
edit_insert(t, s, r) ==
    new_edit(db_build(insert_regions(db_new(Len(t)), s, 1, r)), "InsertChars")

\* backspace::offset_for_delete_backwards: one deletable unit before
\* region.max(), the document start if there is none
offset_for_delete_backwards(region, t) ==
    LET prev == prev_grapheme_offset(t, region_max(region)) IN
    IF prev.some THEN prev.val ELSE 0

\* the loop of EditCtx::delete_backward, about to look at region i
RECURSIVE delete_regions(_, _, _, _)
delete_regions(builder, t, s, i) ==
    IF i > Len(s) THEN builder
    ELSE LET start == offset_for_delete_backwards(s[i], t)
             end == region_max(s[i]) IN
         delete_regions(
             IF start < end THEN db_delete(builder, start, end) ELSE builder,
             t, s, i + 1)

\* The mutation of delete_backward that builds the delta whatever it holds.
delete_backward_always(t, s) ==
    new_edit(db_build(delete_regions(db_new(Len(t)), t, s, 1)), "Delete")

\* EditCtx::delete_backward
delete_backward(t, s) ==
    LET builder == delete_regions(db_new(Len(t)), t, s, 1) IN
    IF ~db_is_empty(builder)
    THEN new_edit(db_build(builder), "Delete")
    ELSE nop

----------------------------------------------------------------------------
(* Applying an edit: the request is built from (text, sel); a request that  *)
(* carries a delta changes the text by it once and carries every region     *)
(* through it; a no-op request changes nothing.                             *)

\* the place of offset ix of the base in the text the delta produces: after
\* the text inserted at ix, at the start of a deleted stretch around ix
RECURSIVE transform_from(_, _, _, _)
transform_from(els, i, out, ix) ==
    IF i > Len(els) THEN out
    ELSE IF els[i].kind = "Insert"
    THEN transform_from(els, i + 1, out + Len(els[i].rope), ix)
    ELSE IF ix < els[i].from THEN out
    ELSE IF ix < els[i].to THEN out + (ix - els[i].from)
    ELSE transform_from(els, i + 1, out + (els[i].to - els[i].from), ix)

transform(delta, ix) == transform_from(delta.els, 1, 0, ix)

transform_region(delta, r) ==
    SelRegion(transform(delta, r.start), transform(delta, r.end))

transform_selection(delta, s) == [i \in 1..Len(s) |-> transform_region(delta, s[i])]

----------------------------------------------------------------------------
(* Movement: xi-text-core/src/movement.rs over the text (a sequence of      *)
(* characters, "\n" ending a logical line) and a Measurement.               *)

Movements ==
    {"Left", "Right", "LeftWord", "RightWord", "LeftOfLine", "RightOfLine",
     "Up", "Down", "UpPage", "DownPage", "UpExactPosition",
     "DownExactPosition", "StartOfParagraph", "EndOfParagraph",
     "EndOfParagraphKill", "StartOfDocument", "EndOfDocument"}

\* Rope::next_grapheme_offset: every character of the model is one grapheme
next_grapheme_offset(t, offset) ==
    IF offset >= Len(t) THEN None ELSE Some(offset + 1)

Newlines(t, offset) == Cardinality({k \in 1..offset : t[k] = "\n"})

\* Rope::line_of_offset: the newlines before offset
line_of_offset(t, offset) == Newlines(t, offset)

\* Rope::offset_of_line: the offset behind the line-th newline, the length
\* of the text for the line behind the last one
RECURSIVE offset_after_newline(_, _, _)
offset_after_newline(t, line, k) ==
    IF line = 0 THEN k
    ELSE IF k >= Len(t) THEN Len(t)
    ELSE offset_after_newline(t, IF t[k + 1] = "\n" THEN line - 1 ELSE line, k + 1)

offset_of_line(t, line) ==
    IF line = Newlines(t, Len(t)) + 1 THEN Len(t)
    ELSE offset_after_newline(t, line, 0)

\* the characters between the start of a logical line and the start of
\* the next, the newline that ends the line left out
line_len_between(t, from, next) ==
    IF next > from /\ t[next] = "\n" THEN next - from - 1 ELSE next - from

\* the characters of a logical line
line_len(t, line) ==
    IF line > Newlines(t, Len(t)) THEN 0
    ELSE line_len_between(t, offset_of_line(t, line), offset_of_line(t, line + 1))

\* A Measurement (measurement.rs 6-25) is the client's.  The model's wraps
\* every logical line after m.wrap characters, a horizontal position being a
\* column; m.empty_lines is the number of visual lines it reports for a
\* logical line without characters.
visual_lines(m, l) ==
    IF l = 0 THEN m.empty_lines ELSE (l + m.wrap - 1) \div m.wrap

\* Measurement::n_visual_lines
n_visual_lines(m, t, line_num) == visual_lines(m, line_len(t, line_num))

\* the visual line, of the n of a logical line, that holds an offset
visual_line_of(m, n, offset) ==
    IF n = 0 THEN 0 ELSE Min(offset \div m.wrap, n - 1)

pos_on(m, offset, line) == [horiz |-> offset - line * m.wrap, line |-> line]

\* Measurement::to_pos: the position (horiz, visual line) of an offset
\* relative to the start of its logical line
to_pos(m, t, line_num, offset) ==
    pos_on(m, offset, visual_line_of(m, n_visual_lines(m, t, line_num), offset))

\* the offset closest to a position in a logical line of l characters and
\* n visual lines
offset_at(m, n, l, horiz, visual_line) ==
    IF visual_line < 0 \/ visual_line >= n THEN 0
    ELSE IF visual_line = n - 1 THEN Min(visual_line * m.wrap + horiz, l)
    ELSE visual_line * m.wrap + Min(horiz, m.wrap - 1)

\* Measurement::from_pos: the offset, relative to the start of the logical
\* line, closest to the position; 0 for a visual line the layout has not
\* (edit_widget.rs 220-222).  visual_line is a usize: a negative number
\* stands for the value it is congruent to modulo 2^64.
from_pos(m, t, line_num, horiz, visual_line) ==
    offset_at(m, n_visual_lines(m, t, line_num), line_len(t, line_num),
              horiz, visual_line)

\* SelRegion::with_horiz
with_horiz(r, horiz) == [r EXCEPT !.horiz = horiz]

\* The mutation of PosInfo that takes the measured horiz whatever the region holds.
PosInfo_measured(r, line_num, line_start, pos) ==
    [line_num |-> line_num, horiz |-> pos.horiz, line_start |-> line_start,
     rel_line |-> pos.line]

\* the PosInfo that pos_info builds from the measured position
PosInfo(r, line_num, line_start, pos) ==
    [line_num |-> line_num,
     horiz |-> IF r.horiz.some THEN r.horiz.val ELSE pos.horiz,
     line_start |-> line_start,
     rel_line |-> pos.line]

\* pos_info
pos_info(r, t, m, move_up, modify) ==
    LET offset == IF modify THEN r.end
                  ELSE IF move_up THEN region_min(r) ELSE region_max(r)
        line_num == line_of_offset(t, offset)
        line_start == offset_of_line(t, line_num)
        rel_offset == offset - line_start IN
    PosInfo(r, line_num, line_start, to_pos(m, t, line_num, rel_offset))

\* a from_pos call as the measurement sees it
FromPosCall(line_num, horiz, visual_line) ==
    [line_num |-> line_num, horiz |-> horiz, visual_line |-> visual_line]

\* what the match of update_region yields: (offset, horiz), the from_pos
\* calls made on the way, or a panic
Moved(offset, horiz, calls) ==
    [fault |-> "none", offset |-> offset, horiz |-> horiz, calls |-> calls]

Panic(fault) == [fault |-> fault, offset |-> 0, horiz |-> None, calls |-> <<>>]

\* a move to the position (horiz, visual_line) of a logical line that
\* starts at line_start: the from_pos call and the offset it gives
move_to_pos(t, m, line_num, line_start, horiz, visual_line) ==
    Moved(line_start + from_pos(m, t, line_num, horiz, visual_line), Some(horiz),
          <<FromPosCall(line_num, horiz, visual_line)>>)

\* The mutation of the arm Left that moves by a grapheme whatever the region.
move_left_grapheme(r, t, modify) ==
    IF prev_grapheme_offset(t, r.end).some
    THEN Moved(prev_grapheme_offset(t, r.end).val, None, <<>>)
    ELSE Moved(0, r.horiz, <<>>)

\* the arm Movement::Left of update_region
move_left(r, t, modify) ==
    IF is_caret(r) \/ modify
    THEN IF prev_grapheme_offset(t, r.end).some
         THEN Moved(prev_grapheme_offset(t, r.end).val, None, <<>>)
         ELSE Moved(0, r.horiz, <<>>)
    ELSE Moved(region_min(r), None, <<>>)

\* The mutation of the arm Right that clears horiz at the end of the text too.
move_right_clear(r, t, modify) ==
    IF is_caret(r) \/ modify
    THEN IF next_grapheme_offset(t, r.end).some
         THEN Moved(next_grapheme_offset(t, r.end).val, None, <<>>)
         ELSE Moved(r.end, None, <<>>)
    ELSE Moved(region_max(r), None, <<>>)

\* the arm Movement::Right of update_region
move_right(r, t, modify) ==
    IF is_caret(r) \/ modify
    THEN IF next_grapheme_offset(t, r.end).some
         THEN Moved(next_grapheme_offset(t, r.end).val, None, <<>>)
         ELSE Moved(r.end, r.horiz, <<>>)
    ELSE Moved(region_max(r), None, <<>>)

\* The mutation of the last branch of Up that aims at the first visual line.
up_to_prev_line_first(info, t, m, checked, prev_line, n_lines) ==
    move_to_pos(t, m, prev_line, offset_of_line(t, prev_line), info.horiz, 0)

\* the last branch of the arm Movement::Up, to the last of the n_lines
\* visual lines of the previous logical line.  n_lines - 1 is a
\* subtraction of usize: at n_lines = 0 a build with overflow checks panics
\* and one without wraps around.
up_to_prev_line(info, t, m, checked, prev_line, n_lines) ==
    IF n_lines = 0 /\ checked THEN Panic("overflow")
    ELSE move_to_pos(t, m, prev_line, offset_of_line(t, prev_line), info.horiz,
                     n_lines - 1)

\* The mutation of up_from that steps one visual line back wherever it is.
up_from_unguarded(info, t, m, checked) ==
    move_to_pos(t, m, info.line_num, info.line_start, info.horiz,
                info.rel_line - 1)

\* the arm Movement::Up of update_region, pos_info called
up_from(info, t, m, checked) ==
    IF info.rel_line > 0
    THEN move_to_pos(t, m, info.line_num, info.line_start, info.horiz,
                     info.rel_line - 1)
    ELSE IF info.line_num = 0 THEN Moved(0, Some(info.horiz), <<>>)
    ELSE up_to_prev_line(info, t, m, checked, info.line_num - 1,
                         n_visual_lines(m, t, info.line_num - 1))

\* the arm Movement::Up of update_region
move_up(r, t, m, modify, checked) ==
    up_from(pos_info(r, t, m, TRUE, modify), t, m, checked)

\* The mutation of the else branch of Down that stops at the start of the line.
down_to_next_line_start(info, t, m, next_line_start) ==
    Moved(next_line_start, Some(info.horiz), <<>>)

\* the else branch of the arm Movement::Down, to the next logical line
down_to_next_line(info, t, m, next_line_start) ==
    IF next_line_start = Len(t)
    THEN Moved(next_line_start, Some(info.horiz), <<>>)
    ELSE move_to_pos(t, m, info.line_num + 1, next_line_start, info.horiz, 0)

\* the arm Movement::Down of update_region, pos_info called
down_from(info, t, m, n_lines) ==
    IF info.rel_line + 1 < n_lines
    THEN move_to_pos(t, m, info.line_num, info.line_start, info.horiz,
                     info.rel_line + 1)
    ELSE down_to_next_line(info, t, m, offset_of_line(t, info.line_num + 1))

\* the arm Movement::Down of update_region
move_down(r, t, m, modify) ==
    LET info == pos_info(r, t, m, FALSE, modify) IN
    down_from(info, t, m, n_visual_lines(m, t, info.line_num))

\* The mutation of the match whose last arm leaves the region where it is.
move_match_noop(self, r, t, m, modify, checked) ==
    CASE self = "Left" -> move_left(r, t, modify)
      [] self = "Right" -> move_right(r, t, modify)
      [] self = "Up" -> move_up(r, t, m, modify, checked)
      [] self = "Down" -> move_down(r, t, m, modify)
      [] OTHER -> Moved(r.end, r.horiz, <<>>)

\* the match of update_region
move_match(self, r, t, m, modify, checked) ==
    CASE self = "Left" -> move_left(r, t, modify)
      [] self = "Right" -> move_right(r, t, modify)
      [] self = "Up" -> move_up(r, t, m, modify, checked)
      [] self = "Down" -> move_down(r, t, m, modify)
      [] OTHER -> Panic("todo")

\* The mutation of the last line of update_region that always collapses.
moved_region_collapse(got, r, modify) ==
    IF got.fault # "none"
    THEN [fault |-> got.fault, region |-> r, calls |-> <<>>]
    ELSE [fault |-> "none",
          region |-> with_horiz(SelRegion(got.offset, got.offset), got.horiz),
          calls |-> got.calls]

\* the last line of update_region: the region built from what the match
\* yielded
moved_region(got, r, modify) ==
    IF got.fault # "none"
    THEN [fault |-> got.fault, region |-> r, calls |-> <<>>]
    ELSE [fault |-> "none",
          region |-> with_horiz(
                         SelRegion(IF modify THEN r.start ELSE got.offset, got.offset),
                         got.horiz),
          calls |-> got.calls]

\* Movement::update_region: the region it returns, with the from_pos calls
\* it made, or the panic that ends it
update_region(self, r, t, m, modify, checked) ==
    moved_region(move_match(self, r, t, m, modify, checked), r, modify)

\* Selection::add_region of a region behind those the selection holds
add_region(s, r) == Append(s, r)

\* the body of the loop of Movement::update_selection: new_region is what
\* update_region gave for a region of s
add_moved(acc, s, new_region) ==
    IF acc.fault # "none" THEN acc
    ELSE IF new_region.fault # "none"
    THEN [fault |-> new_region.fault, sel |-> s, calls |-> <<>>]
    ELSE [fault |-> "none", sel |-> add_region(acc.sel, new_region.region),
          calls |-> acc.calls \o new_region.calls]

\* the loop of Movement::update_selection, about to look at region i
RECURSIVE update_regions(_, _, _, _, _, _, _, _)
update_regions(self, s, t, m, modify, checked, i, acc) ==
    IF i > Len(s) THEN acc
    ELSE update_regions(self, s, t, m, modify, checked, i + 1,
             add_moved(acc, s, update_region(self, s[i], t, m, modify, checked)))

\* Movement::update_selection
update_selection(self, s, t, m, modify, checked) ==
    update_regions(self, s, t, m, modify, checked, 1,
                   [fault |-> "none", sel |-> <<>>, calls |-> <<>>])

----------------------------------------------------------------------------
(* The rope under its mutators.  `list` is the plain list the rope is to    *)
(* stand for; it is changed by the list operation of the same name.         *)

InsertAt(s, i, x) == SubSeq(s, 1, i) \o <<x>> \o SubSeq(s, i + 1, Len(s))
SetAt(s, i, x) == SubSeq(s, 1, i) \o <<x>> \o SubSeq(s, i + 2, Len(s))
RemoveAt(s, i) == SubSeq(s, 1, i) \o SubSeq(s, i + 2, Len(s))

Zeros(s) == Cardinality({k \in 1..Len(s) : s[k] = 0})

\* the lists the model lets a rope hold
Admitted(s) == Len(s) <= MaxLen /\ Zeros(s) <= MaxZero

RopeInit ==
    /\ rope = from_leaf(<<>>)
    /\ list = <<>>

Insert(index, item) ==
    /\ index <= rope_len(rope)
    /\ Admitted(InsertAt(list, index, item))
    /\ rope' = insert(rope, index, item)
    /\ list' = InsertAt(list, index, item)
    /\ UNCHANGED <<editVars, iterVars, moveVars, wg>>

Set(index, item) ==
    /\ index < rope_len(rope)
    /\ Admitted(SetAt(list, index, item))
    /\ rope' = set(rope, index, item)
    /\ list' = SetAt(list, index, item)
    /\ UNCHANGED <<editVars, iterVars, moveVars, wg>>

Remove(index) ==
    /\ index < rope_len(rope)
    /\ rope' = remove(rope, index)
    /\ list' = RemoveAt(list, index)
    /\ UNCHANGED <<editVars, iterVars, moveVars, wg>>

Push(item) ==
    /\ Admitted(Append(list, item))
    /\ rope' = push(rope, item)
    /\ list' = Append(list, item)
    /\ UNCHANGED <<editVars, iterVars, moveVars, wg>>

\* the edit engine at rest: nothing to edit, no request made
Idle == [op |-> "none", ins |-> <<>>, emitted |-> 0] @@ nop

EditIdle ==
    /\ text = <<>>
    /\ sel = <<>>
    /\ req = Idle

\* no chunk iterator borrowed from the rope
NoIter ==
    [active |-> FALSE, iter |-> iter_chunks(from_leaf(<<>>), 0, 0), start |-> 0,
     yielded |-> <<>>, steps |-> 0, done |-> FALSE, panic |-> FALSE]

\* no leaf handed to a leaf or metric method
NoLeafOp ==
    [op |-> "none", self |-> <<>>, other |-> <<>>, start |-> 0, end |-> 0,
     arg |-> 0, left |-> <<>>, split |-> FALSE, right |-> <<>>, result |-> 0]

IterIdle ==
    /\ it = NoIter
    /\ lf = NoLeafOp

\* no movement made: the measurement of a client that never wraps
NoMove ==
    [op |-> "none", modify |-> FALSE, fault |-> "none", before |-> <<>>,
     calls |-> <<>>, anchor |-> None, run |-> 0]

MoveIdle ==
    /\ meas = [wrap |-> 1, empty_lines |-> 1]
    /\ mv = NoMove

\* no widget made for the editor
NoWidget ==
    [phase |-> "none", laid |-> <<>>, cursors |-> <<>>, fault |-> "none",
     last |-> "none"]

WidgetIdle == wg = NoWidget

Init == RopeInit /\ EditIdle /\ IterIdle /\ MoveIdle /\ WidgetIdle

Next ==
    \/ \E index \in 0..MaxLen, item \in Heights : Insert(index, item)
    \/ \E index \in 0..MaxLen, item \in Heights : Set(index, item)
    \/ \E index \in 0..MaxLen : Remove(index)
    \/ \E item \in Heights : Push(item)

Spec == Init /\ [][Next]_vars

----------------------------------------------------------------------------
(* The edit engine: EditOp::Insert and EditOp::Backspace applied to the     *)
(* text and selection of an editor.  `req` keeps the request the last op    *)
(* built, with the op, the text it inserted and the number of replacements  *)
(* its loop handed to the delta builder.                                    *)

\* the characters of a starting text are told apart by their place
InitText(n) == [k \in 1..n |-> k]

\* the texts an Insert types: the character 0, which no initial text holds
InsertTexts == {[k \in 1..n |-> 0] : n \in 0..MaxInsert}

\* the character at offset o of t (counted from 1) was typed
Typed(t, o) == t[o] = 0

Regions(n) == {SelRegion(a, b) : a \in 0..n, b \in 0..n}

\* the valid selections of at most k regions over a text of length n
RECURSIVE Selections(_, _)
Selections(n, k) ==
    IF k = 0 THEN {<<>>}
    ELSE LET S == Selections(n, k - 1) IN
         S \cup {Append(p[1], p[2]) :
                    p \in {q \in S \X Regions(n) :
                              /\ Len(q[1]) = k - 1
                              /\ ValidSelection(Append(q[1], q[2]), n)}}

\* the regions whose backspace interval is not empty
Deleting(t, s) ==
    {i \in 1..Len(s) : offset_for_delete_backwards(s[i], t) < region_max(s[i])}

\* what the editor does with a request: a delta changes the text and carries
\* the selection along, new_sel replaces the selection, a no-op leaves both
Applied(request) ==
    IF request.edit.some
    THEN /\ text' = delta_apply(request.edit.delta, text)
         /\ sel' = IF request.new_sel.some THEN request.new_sel.val
                   ELSE transform_selection(request.edit.delta, sel)
    ELSE /\ text' = text
         /\ sel' = IF request.new_sel.some THEN request.new_sel.val ELSE sel

EditInit ==
    /\ \E n \in 0..MaxInitLen :
          /\ text = InitText(n)
          /\ sel \in Selections(n, MaxRegions)
    /\ req = Idle

ApplyInsert(r) ==
    /\ ValidSelection(sel, Len(text))
    /\ Len(text) + Len(sel) * Len(r) <= MaxTextLen
    /\ LET request == edit_insert(text, sel, r) IN
       /\ req' = [op |-> "insert", ins |-> r, emitted |-> Len(sel)] @@ request
       /\ Applied(request)
    /\ UNCHANGED <<ropeVars, iterVars, moveVars, wg>>

ApplyBackspace ==
    /\ ValidSelection(sel, Len(text))
    /\ LET request == delete_backward(text, sel) IN
       /\ req' = [op |-> "delete_backward", ins |-> <<>>,
                  emitted |-> Cardinality(Deleting(text, sel))] @@ request
       /\ Applied(request)
    /\ UNCHANGED <<ropeVars, iterVars, moveVars, wg>>

InitEdit == RopeInit /\ EditInit /\ IterIdle /\ MoveIdle /\ WidgetIdle

NextEdit ==
    \/ \E r \in InsertTexts : ApplyInsert(r)
    \/ ApplyBackspace

SpecEdit == InitEdit /\ [][NextEdit]_vars

----------------------------------------------------------------------------
(* Movements applied to the selection of an editor (EditOp::Move).  `meas`  *)
(* is the client's measurement; `mv` keeps the last movement with the       *)
(* selection it was applied to, the from_pos calls it made, the panic that  *)
(* ended it if one did, and, for a                                          *)
(* run of vertical moves, its length and the horiz the region had when the  *)
(* run began.  A panic ends the program: nothing of the editor is left but  *)
(* the record of the movement that panicked.                                *)

Line(n) == [k \in 1..n |-> "a"]

\* the texts of at most k logical lines
RECURSIVE TextsOf(_)
TextsOf(k) ==
    LET lines == {Line(n) : n \in 0..MaxLineLen} IN
    IF k <= 1 THEN lines
    ELSE LET shorter == TextsOf(k - 1) IN
         shorter \cup {p[1] \o <<"\n">> \o p[2] : p \in shorter \X lines}

Horizs == {None} \cup {Some(h) : h \in 0..MaxHoriz}

Measurements == [wrap : 1..MaxWrap, empty_lines : {0, 1}]

MoveInit ==
    /\ text \in TextsOf(MaxLines)
    /\ sel \in {<<>>} \cup {<<with_horiz(SelRegion(a, b), h)>> :
                               a \in 0..Len(text), b \in 0..Len(text), h \in Horizs}
    /\ meas \in Measurements
    /\ mv = NoMove
    /\ req = Idle

Vertical(self) == self \in {"Up", "Down"}

\* the editor after a panic
Crashed(self, modify, fault) ==
    /\ text' = <<>>
    /\ sel' = <<>>
    /\ meas' = [wrap |-> 1, empty_lines |-> 1]
    /\ mv' = [op |-> self, modify |-> modify, fault |-> fault, before |-> sel,
              calls |-> <<>>, anchor |-> None, run |-> 0]

\* what the editor makes of the outcome of update_selection
AfterMove(self, modify, got) ==
    IF got.fault # "none" THEN Crashed(self, modify, got.fault)
    ELSE /\ sel' = got.sel
         /\ mv' = [op |-> self, modify |-> modify, fault |-> "none",
                   before |-> sel, calls |-> got.calls,
                   anchor |-> IF ~(Vertical(self) /\ sel # <<>>) THEN None
                              ELSE IF mv.run = 0 THEN sel[1].horiz ELSE mv.anchor,
                   run |-> IF Vertical(self) /\ sel # <<>>
                           THEN Min(mv.run + 1, MaxRun) ELSE 0]
         /\ UNCHANGED <<text, meas>>

\* checked: the build traps on integer overflow
ApplyMove(self, modify, checked) ==
    /\ mv.fault = "none"
    /\ AfterMove(self, modify,
                 update_selection(self, sel, text, meas, modify, checked))
    /\ UNCHANGED <<ropeVars, iterVars, req, wg>>

InitMove == RopeInit /\ MoveInit /\ IterIdle /\ WidgetIdle

\* only the subtraction of Up can overflow: the build matters to no other
NextMove ==
    \E self \in Movements, modify \in BOOLEAN :
        \E checked \in IF self = "Up" THEN BOOLEAN ELSE {FALSE} :
            ApplyMove(self, modify, checked)

SpecMove == InitMove /\ [][NextMove]_vars

----------------------------------------------------------------------------
(* Chunked iteration: a ChunkIter borrowed from a rope, advanced one call   *)
(* of next() at a time.  `it` keeps the iterator, the start it was made     *)
(* for, the slices it has returned and the number of calls.  The rope is    *)
(* borrowed for as long as the iterator lives, so no mutator runs then.     *)
(* The rope grows by push; the layout with index k has the height k + 1,    *)
(* which tells the layouts apart.                                           *)

\* the lengths of the ropes that are iterated over
IterLens == (0..MaxIterLen) \cup {DeepLen}

\* rope.push(layout), of the layout that is told by its height
PushLayout ==
    /\ ~it.active
    /\ rope_len(rope) < DeepLen
    /\ rope' = push(rope, rope_len(rope) + 1)
    /\ list' = Append(list, rope_len(rope) + 1)
    /\ UNCHANGED <<editVars, iterVars, moveVars, wg>>

\* let chunks = rope.iter_chunks(start..end)
IterChunks(start, end) ==
    /\ ~it.active
    /\ start <= end
    /\ end <= rope_len(rope)
    /\ it' = [active |-> TRUE, iter |-> iter_chunks(rope, start, end),
              start |-> start, yielded |-> <<>>, steps |-> 0,
              done |-> FALSE, panic |-> FALSE]
    /\ UNCHANGED <<ropeVars, editVars, lf, moveVars, wg>>

\* what the caller keeps of one call of next()
Advanced(self, got) ==
    [self EXCEPT !.iter = got.iter,
                 !.yielded = IF got.item.some THEN Append(@, got.item.val) ELSE @,
                 !.steps = @ + 1,
                 !.done = ~got.item.some /\ ~got.panic,
                 !.panic = got.panic]

\* chunks.next(), until it returns None
IterNext ==
    /\ it.active
    /\ ~it.done
    /\ ~it.panic
    /\ it' = Advanced(it, chunk_next(rope, it.iter))
    /\ UNCHANGED <<ropeVars, editVars, lf, moveVars, wg>>

\* the iterator goes out of scope
IterDrop ==
    /\ it.active
    /\ it' = NoIter
    /\ UNCHANGED <<ropeVars, editVars, lf, moveVars, wg>>

\* the calls of iter_chunks, on the ropes and ranges of the model
CallIterChunks ==
    /\ ~it.active
    /\ rope_len(rope) \in IterLens
    /\ \E end \in 0..rope_len(rope) : \E start \in 0..end : IterChunks(start, end)

NextIter ==
    \/ PushLayout
    \/ CallIterChunks
    \/ IterNext
    \/ IterDrop

SpecIter == Init /\ [][NextIter]_vars

----------------------------------------------------------------------------
(* The methods of a leaf and of the height metric on one leaf, called once  *)
(* each on leaves of every length: `lf` keeps the method, its arguments and *)
(* what it returned.  The layouts of the leaves appended are told apart by  *)
(* their heights: k for the k-th of self, MaxLeafIn + k for the k-th of     *)
(* other.                                                                   *)

LeafOf(n, base) == [k \in 1..n |-> base + k]

\* the leaves the height metric scans
ScanLeaves == UNION {[1..n -> Heights] : n \in 0..MaxScanLen}

\* self.push_maybe_split(&other, Interval::new(start, end))
PushMaybeSplit(self, other, start, end) ==
    /\ start <= end
    /\ end <= Len(other)
    /\ lf' = push_maybe_split(self, other, start, end)
                @@ [NoLeafOp EXCEPT !.op = "push_maybe_split", !.self = self,
                                    !.other = other, !.start = start, !.end = end]
    /\ UNCHANGED <<ropeVars, editVars, it, moveVars, wg>>

\* HeightMetric::to_base_units(&l, in_measured_units)
ToBaseUnits(l, in_measured_units) ==
    /\ lf' = [NoLeafOp EXCEPT !.op = "to_base_units", !.self = l,
                              !.arg = in_measured_units,
                              !.result = to_base_units("Height", l, in_measured_units)]
    /\ UNCHANGED <<ropeVars, editVars, it, moveVars, wg>>

\* HeightMetric::from_base_units(&l, in_base_units): the slice
\* l.data[..in_base_units] is there for in_base_units <= l.len() only
FromBaseUnits(l, in_base_units) ==
    /\ in_base_units <= Len(l)
    /\ lf' = [NoLeafOp EXCEPT !.op = "from_base_units", !.self = l,
                              !.arg = in_base_units,
                              !.result = from_base_units("Height", l, in_base_units)]
    /\ UNCHANGED <<ropeVars, editVars, it, moveVars, wg>>

\* the method has returned
LeafReturn ==
    /\ lf # NoLeafOp
    /\ lf' = NoLeafOp
    /\ UNCHANGED <<ropeVars, editVars, it, moveVars, wg>>

\* no method of a leaf is running: the next one may be called
LeafIdle == lf = NoLeafOp

\* the calls of the three methods, on the leaves and arguments of the model
CallPushMaybeSplit ==
    /\ LeafIdle
    /\ \E n \in 0..MaxLeafIn, m \in 0..MaxLeafIn :
           \E end \in 0..m : \E start \in 0..end :
               PushMaybeSplit(LeafOf(n, 0), LeafOf(m, MaxLeafIn), start, end)

CallToBaseUnits ==
    /\ LeafIdle
    /\ \E l \in ScanLeaves, u \in 0..MaxBudget : ToBaseUnits(l, u)

CallFromBaseUnits ==
    /\ LeafIdle
    /\ \E l \in ScanLeaves, b \in 0..MaxScanLen : FromBaseUnits(l, b)

NextLeaf ==
    \/ CallPushMaybeSplit
    \/ CallToBaseUnits
    \/ CallFromBaseUnits
    \/ LeafReturn

SpecLeaf == Init /\ [][NextLeaf]_vars

----------------------------------------------------------------------------
(* The editor widget: EditWidget over XiState (edit_widget.rs).  `text` and *)
(* `sel` are the data, `rope` the layouts of the widget, `meas` the way the *)
(* text layouts wrap a line.  `wg` keeps the phase of the widget ("new"     *)
(* before WidgetAdded, "ready" with no change of the data pending, "dirty"  *)
(* between a change of the data and the update it brings, "crashed" after a *)
(* panic), the text the layouts were made from, the paragraph of each       *)
(* cursor, the last op applied and the fault that ended the program.  The   *)
(* framework delivers WidgetAdded before any event, and after an event      *)
(* that changed the data it calls update before the next event.             *)

\* the raw height of one visual line of a text layout
LineHeight == 2

\* the newline update_layouts adds to an empty text or one that ends in a
\* newline (edit_widget.rs 120-122)
with_last_line(t) ==
    IF t = <<>> \/ t[Len(t)] = "\n" THEN Append(t, "\n") ELSE t

\* Rope::lines_raw: the lengths of the lines of t from offset `from` on,
\* each without the newline that ends it (the trim of edit_widget.rs 124-131)
RECURSIVE trims_from(_, _, _)
trims_from(t, from, k) ==
    IF k > Len(t) THEN IF from > Len(t) THEN <<>> ELSE <<k - from>>
    ELSE IF t[k] = "\n" THEN <<k - from>> \o trims_from(t, k + 1, k + 1)
    ELSE trims_from(t, from, k + 1)

trims(t) == trims_from(t, 1, 1)

\* Layout::height of the layout of a line of l characters
layout_height(m, l) == LineHeight * visual_lines(m, l)

\* the loop of update_layouts: builder.push_layout for the lines from i on
RECURSIVE push_layouts(_, _, _, _)
push_layouts(b, ls, m, i) ==
    IF i > Len(ls) THEN b
    ELSE push_layouts(tb_push_leaf(b, singleton_leaf(layout_height(m, ls[i]))),
                      ls, m, i + 1)

\* The mutation of update_layouts that lays out the lines of the text as
\* it is.
update_layouts_as_is(t, m) == tb_build(push_layouts(tb_new, trims(t), m, 1))

\* EditWidget::update_layouts: the layouts it builds
update_layouts(t, m) ==
    tb_build(push_layouts(tb_new, trims(with_last_line(t)), m, 1))

\* one pass of the loop of update_cursors: the cursor of region r
cursor_of(acc, r, t, layouts) ==
    IF acc.fault # "none" THEN acc
    ELSE IF ~get(layouts, line_of_offset(t, r.end)).some
    THEN [fault |-> "unwrap", cursors |-> <<>>]
    ELSE [fault |-> "none",
          cursors |-> Append(acc.cursors, line_of_offset(t, r.end))]

\* EditWidget::update_cursors: the paragraph of every cursor, or the panic
\* of the unwrap of a layout that is not there
RECURSIVE update_cursors(_, _, _, _, _)
update_cursors(s, t, layouts, i, acc) ==
    IF i > Len(s) THEN acc
    ELSE update_cursors(s, t, layouts, i + 1, cursor_of(acc, s[i], t, layouts))

\* Data::same of XiState: the texts are equal (util::rope_eq) and the
\* selections are one Arc; apply_edit_op always makes a new Arc
same(old_text, new_text, new_arc) == old_text = new_text /\ ~new_arc

\* the logical lines whose layout a movement looks up through XiMeasurement
lookups(self, s, t, modify, calls) ==
    {c.line_num : c \in {calls[k] : k \in 1..Len(calls)}}
        \cup IF self \in {"Up", "Down"}
             THEN {line_of_offset(t, IF modify THEN s[i].end
                                     ELSE IF self = "Up" THEN region_min(s[i])
                                     ELSE region_max(s[i])) : i \in 1..Len(s)}
             ELSE {}

\* what XiMeasurement makes of the lookups of a movement: the unwrap of a
\* layout that is not there panics, a layout made from another text than
\* the one moved in is stale
looked_up(lines, laid, t, layouts) ==
    IF \E l \in lines : ~get(layouts, l).some THEN "unwrap"
    ELSE IF lines # {} /\ laid # t THEN "stale"
    ELSE "none"

WidgetInit ==
    /\ text \in TextsOf(MaxLines)
    /\ sel = <<Caret(Len(text))>>
    /\ meas \in Measurements
    /\ rope = from_leaf(<<>>)
    /\ list = <<>>
    /\ req = Idle
    /\ mv = NoMove
    /\ wg = [NoWidget EXCEPT !.phase = "new"]

\* the widget after a panic
WidgetCrashed(op, fault) ==
    /\ text' = <<>>
    /\ sel' = <<>>
    /\ rope' = from_leaf(<<>>)
    /\ meas' = [wrap |-> 1, empty_lines |-> 1]
    /\ wg' = [NoWidget EXCEPT !.phase = "crashed", !.fault = fault, !.last = op]

\* update_layouts and update_cursors, as lifecycle and update call them
Relaid(layouts, got) ==
    IF got.fault # "none" THEN WidgetCrashed("update", got.fault)
    ELSE /\ rope' = layouts
         /\ wg' = [wg EXCEPT !.phase = "ready", !.laid = text,
                             !.cursors = got.cursors]
         /\ UNCHANGED <<text, sel, meas>>

Relay(layouts) ==
    Relaid(layouts,
           update_cursors(sel, text, layouts, 1, [fault |-> "none", cursors |-> <<>>]))

\* EditWidget::lifecycle with LifeCycle::WidgetAdded
WidgetAdded ==
    /\ wg.phase = "new"
    /\ Relay(update_layouts(text, meas))
    /\ UNCHANGED <<list, req, iterVars, mv>>

\* EditWidget::update
Update ==
    /\ wg.phase = "dirty"
    /\ Relay(update_layouts(text, meas))
    /\ UNCHANGED <<list, req, iterVars, mv>>

\* the data after apply_edit_op changed them
Changed(op, old_text) ==
    wg' = [wg EXCEPT !.phase = IF same(old_text, text', TRUE) THEN "ready" ELSE "dirty",
                     !.last = op]

\* EditWidget::event with a key that maps to an Insert or a Backspace
Edited(op, request) ==
    /\ Applied(request)
    /\ Changed(op, text)
    /\ UNCHANGED <<rope, meas>>

KeyInsert(r) ==
    /\ wg.phase = "ready"
    /\ Len(text) + Len(r) <= MaxWidgetLen
    /\ Edited("Insert", edit_insert(text, sel, r))
    /\ UNCHANGED <<list, req, iterVars, mv>>

KeyBackspace ==
    /\ wg.phase = "ready"
    /\ Edited("Backspace", delete_backward(text, sel))
    /\ UNCHANGED <<list, req, iterVars, mv>>

\* what apply_edit_op makes of a movement
MovedWidget(self, got, fault) ==
    IF fault # "none" THEN WidgetCrashed(self, fault)
    ELSE IF got.fault # "none" THEN WidgetCrashed(self, got.fault)
    ELSE /\ sel' = got.sel
         /\ text' = text
         /\ Changed(self, text)
         /\ UNCHANGED <<rope, meas>>

MoveLooked(self, modify, got) ==
    MovedWidget(self, got,
                looked_up(lookups(self, sel, text, modify, got.calls),
                          wg.laid, text, rope))

\* EditWidget::event with an arrow key
KeyMove(self, modify, checked) ==
    /\ wg.phase = "ready"
    /\ MoveLooked(self, modify,
                  update_selection(self, sel, text, meas, modify, checked))
    /\ UNCHANGED <<list, req, iterVars, mv>>

\* the characters a key types: a letter, or the newline of Enter
KeyTexts == {<<"a">>, <<"\n">>}

\* the movements the keys are bound to
KeyMovements == {"Left", "Right", "Up", "Down"}

NextWidget ==
    \/ WidgetAdded
    \/ Update
    \/ \E r \in KeyTexts : KeyInsert(r)
    \/ KeyBackspace
    \/ \E self \in KeyMovements, modify \in BOOLEAN :
           \E checked \in IF self = "Up" THEN BOOLEAN ELSE {FALSE} :
               KeyMove(self, modify, checked)

InitWidget == WidgetInit /\ IterIdle

SpecWidget == InitWidget /\ [][NextWidget]_vars

----------------------------------------------------------------------------
(* Claims about the layout rope *)

\* the sums of the first i-1, i, .. Len(s) heights of s, acc being the first
RECURSIVE PrefixSums(_, _, _)
PrefixSums(s, i, acc) ==
    IF i > Len(s) THEN <<acc>> ELSE <<acc>> \o PrefixSums(s, i + 1, acc + s[i])

\* the height at the top of each index of the list s: Tops(s)[k + 1] is the
\* top of the layout with index k, the last entry the total height
Tops(s) == PrefixSums(s, 1, 0)

\* height_of_index of the indices i..len of r, in order
RECURSIVE HeightsOfIndices(_, _)
HeightsOfIndices(r, i) ==
    IF i > rope_len(r) THEN <<>>
    ELSE <<height_of_index(r, i)>> \o HeightsOfIndices(r, i + 1)

AllPositive(s) == \A k \in 1..Len(s) : s[k] > 0

LeafLens(r) == [i \in 1..Len(Leaves(r)) |-> Len(Leaves(r)[i])]

TwoLeaves == Len(Leaves(rope)) = 2

\* C1: in a rope whose layouts all have a positive height (so that no two
\* indices share a cumulative height), index_of_height(height_of_index(i))
\* is i for every valid index i.
C1_RoundTrip ==
    LET s == Elements(rope) IN
    AllPositive(s) =>
        \A i \in 0..(Len(s) - 1) :
            index_of_height(rope, height_of_index(rope, i)) = i

\* a rope of two leaves, all heights positive, where the round trip at the
\* first index of the second leaf has been taken
C1_Witness ==
    /\ TwoLeaves
    /\ AllPositive(Elements(rope))
    /\ index_of_height(rope, height_of_index(rope, LeafLens(rope)[1])) = LeafLens(rope)[1]

\* C2: height_of_index(n) = height_of_index(k) + the heights of the layouts
\* k..n for all 0 <= k <= n <= len; height_of_index(0) is zero and
\* height_of_index(len) is height(), whatever the leaves are.
C2_PrefixSum ==
    LET s == Elements(rope)
        n == rope_len(rope)
        P == Tops(s)
        H == HeightsOfIndices(rope, 0) IN
    /\ H[1] = 0
    /\ H[n + 1] = rope_height(rope)
    /\ \A k \in 0..n : \A m \in k..n : H[m + 1] = H[k + 1] + (P[m + 1] - P[k + 1])

\* a rope of two leaves holding a zero-height layout, with k in the first
\* leaf and n the end of the second
C2_Witness ==
    /\ TwoLeaves
    /\ Zeros(Elements(rope)) = 1
    /\ height_of_index(rope, rope_len(rope)) =
           height_of_index(rope, 1)
               + SumSeq(SubSeq(Elements(rope), 2, rope_len(rope)))
    /\ height_of_index(rope, rope_len(rope)) = rope_height(rope)

BadLeaves(r) ==
    {i \in 1..Len(Leaves(r)) : LeafLens(r)[i] < MIN_LEAF \/ LeafLens(r)[i] > MAX_LEAF}

\* C3: after any sequence of insert, remove and set from the empty rope,
\* every leaf but possibly one has a length in MIN_LEAF..MAX_LEAF.
C3_LeafInvariant == Cardinality(BadLeaves(rope)) <= 1

\* the mutators have split the only leaf, and both halves are within bounds
C3_Witness == TwoLeaves /\ BadLeaves(rope) = {}

\* layout k of s is the one index_of_height is to find for h
Matches(s, P, k, h) ==
    \/ P[k + 1] <= h /\ h < P[k + 1] + s[k + 1]
    \/ s[k + 1] = 0 /\ P[k + 1] = h

\* the first layout from k on that matches h, Len(s) if there is none
RECURSIVE FirstMatch(_, _, _, _)
FirstMatch(s, P, h, k) ==
    IF k >= Len(s) THEN Len(s)
    ELSE IF Matches(s, P, k, h) THEN k
    ELSE FirstMatch(s, P, h, k + 1)

\* C4: for every h in [0, height()], index_of_height(h) is the first layout
\* that contains h in [top, top + height) or is a zero-height layout whose
\* top is h, also when that layout lies at a leaf boundary.
C4_FirstMatch ==
    LET s == Elements(rope)
        P == Tops(s) IN
    \A h \in 0..P[Len(s) + 1] :
        LET first == FirstMatch(s, P, h, 0) IN
        first < Len(s) => index_of_height(rope, h) = first

\* a zero-height layout is the last of the first leaf, and the lookup of its
\* top finds it
C4_Witness ==
    /\ TwoLeaves
    /\ LET l1 == Leaves(rope)[1] IN
       /\ l1[Len(l1)] = 0
       /\ index_of_height(rope, SumSeq(l1)) = Len(l1) - 1

\* C5: index_of_height(height()) is len() unless the rope ends on a
\* zero-height layout, and index_of_height(h) lies in [0, len] for every h
\* in [0, height()].
C5_TotalHeight ==
    LET s == Elements(rope)
        total == rope_height(rope) IN
    /\ (s = <<>> \/ s[Len(s)] # 0) => index_of_height(rope, total) = rope_len(rope)
    /\ \A h \in 0..total : index_of_height(rope, h) \in 0..rope_len(rope)

\* a rope of two leaves with a zero-height layout inside, not at its end,
\* asked for its total height
C5_Witness ==
    /\ TwoLeaves
    /\ Zeros(Elements(rope)) = 1
    /\ Elements(rope)[rope_len(rope)] # 0
    /\ index_of_height(rope, rope_height(rope)) = rope_len(rope)

\* C6: the rope holds the list its mutators are to produce: len() is the
\* length of the list, get(j) is the j-th pair for j < len and None beyond.
C6_ListRefinement ==
    /\ Elements(rope) = list
    /\ rope_len(rope) = Len(list)
    /\ \A j \in 0..(MaxLen + 1) :
           get(rope, j) = IF j < Len(list) THEN Some(list[j + 1]) ELSE None

\* a zero-height layout sits in the second leaf, and get finds it there
C6_Witness ==
    /\ TwoLeaves
    /\ \E j \in LeafLens(rope)[1]..(rope_len(rope) - 1) :
           list[j + 1] = 0 /\ get(rope, j) = Some(0)

----------------------------------------------------------------------------
(* Claims about the edit engine *)

\* the text t with the interval of each of the regions 1..i of s replaced
\* by r, the last region first
RECURSIVE ReplaceRegions(_, _, _, _)
ReplaceRegions(t, s, i, r) ==
    IF i = 0 THEN t
    ELSE ReplaceRegions(
             SubSeq(t, 1, region_min(s[i])) \o r \o SubSeq(t, region_max(s[i]) + 1, Len(t)),
             s, i - 1, r)

Inserts(delta) == {i \in 1..Len(delta.els) : delta.els[i].kind = "Insert"}

\* the offsets of the base a delta does not copy
DeletedBy(delta) ==
    {k \in 0..(delta.base_len - 1) :
        ~\E i \in 1..Len(delta.els) :
            /\ delta.els[i].kind = "Copy"
            /\ delta.els[i].from <= k
            /\ k < delta.els[i].to}

\* C7: an Insert replaces the interval [min, max) of every region by the
\* inserted text; a one-character Insert at the single caret o of a text of
\* length L gives a text of length L + 1 and the caret o + 1.
C7_InsertStep ==
    req'.op = "insert" =>
        /\ text' = ReplaceRegions(text, sel, Len(sel), req'.ins)
        /\ (Len(sel) = 1 /\ is_caret(sel[1]) /\ Len(req'.ins) = 1) =>
               /\ Len(text') = Len(text) + 1
               /\ sel' = <<Caret(sel[1].end + 1)>>

C7_Insert == [][C7_InsertStep]_vars

\* a character typed at a lone caret inside the text: the caret is behind it
C7_Witness ==
    /\ req.op = "insert"
    /\ Len(req.ins) = 1
    /\ req.edit.some
    /\ req.edit.delta.base_len = Len(text) - 1
    /\ \E o \in 2..(Len(text) - 1) :
           /\ sel = <<Caret(o)>>
           /\ Typed(text, o)
           /\ ~Typed(text, o + 1)

AllCarets(s) == \A i \in 1..Len(s) : is_caret(s[i])

\* C8: an Insert over several carets builds one delta with one replacement
\* per caret and the text changes by that delta in one step; each caret
\* moves by the length inserted at or before it.  Carets 3 and 7 of a text
\* of 10 with one character: a text of 12, carets 4 and 9.
C8_MultiCaretStep ==
    (req'.op = "insert" /\ Len(sel) >= 2 /\ AllCarets(sel)) =>
        /\ req'.edit.some
        /\ req'.ins # <<>> => Cardinality(Inserts(req'.edit.delta)) = Len(sel)
        /\ req'.edit.delta.base_len = Len(text)
        /\ text' = delta_apply(req'.edit.delta, text)
        /\ Len(text') = Len(text) + Len(sel) * Len(req'.ins)
        /\ sel' = [i \in 1..Len(sel) |-> Caret(sel[i].end + i * Len(req'.ins))]
        /\ (Len(text) = 10 /\ sel = <<Caret(3), Caret(7)>> /\ Len(req'.ins) = 1) =>
               Len(text') = 12 /\ sel' = <<Caret(4), Caret(9)>>

C8_MultiCaret == [][C8_MultiCaretStep]_vars

\* the text of 10 with carets 3 and 7 after one character was typed
C8_Witness ==
    /\ req.op = "insert"
    /\ req.edit.some
    /\ req.edit.delta.base_len = 10
    /\ Len(text) = 12
    /\ sel = <<Caret(4), Caret(9)>>
    /\ Typed(text, 4)
    /\ Typed(text, 9)

\* C9: delete_backward deletes [offset_for_delete_backwards(region),
\* region.max()) for exactly the regions where that interval is not empty;
\* it returns the no-op request (no edit, no new_sel; text and selection
\* stay) if and only if no region had one, as for the lone caret 0.
C9_BackspaceStep ==
    req'.op = "delete_backward" =>
        LET del == Deleting(text, sel)
            wanted == UNION {offset_for_delete_backwards(sel[i], text)
                                 ..(region_max(sel[i]) - 1) : i \in del} IN
        /\ ~req'.edit.some <=> del = {}
        /\ ~req'.new_sel.some
        /\ req'.edit.some =>
               /\ req'.edit.delta.base_len = Len(text)
               /\ DeletedBy(req'.edit.delta) = wanted
               /\ Inserts(req'.edit.delta) = {}
        /\ ~req'.edit.some => text' = text /\ sel' = sel
        /\ sel = <<Caret(0)>> => ~req'.edit.some

C9_Backspace == [][C9_BackspaceStep]_vars

\* a backspace at the lone caret 0 of a text that is not empty
C9_Witness ==
    /\ req.op = "delete_backward"
    /\ ~req.edit.some
    /\ ~req.new_sel.some
    /\ sel = <<Caret(0)>>
    /\ text = InitText(Len(text))
    /\ Len(text) > 0

\* C10: whichever the edit operation, Insert or Delete-backward, a request
\* whose loop emitted no replacement (also for a selection of no regions)
\* is the no-op request: it carries no delta.
C10_NoReplacementIsNop ==
    (req.op # "none" /\ req.emitted = 0) => ~req.edit.some

----------------------------------------------------------------------------
(* Claims about movement.  Before is the region the last movement was       *)
(* applied to and After the region it returned.                             *)

Before == mv.before[1]
After == sel[1]

\* the last step applied one of the movements ops to a region and returned
MovedBy(ops) == mv.op \in ops /\ mv.fault = "none" /\ mv.before # <<>>

\* the offset a vertical move starts from
AnchorOffset(r, up, modify) ==
    IF modify THEN r.end ELSE IF up THEN region_min(r) ELSE region_max(r)

\* the logical line of an offset, the start of that line, and the position
\* the measurement gives for the offset
LineOf(o) == line_of_offset(text, o)
LineStart(o) == offset_of_line(text, LineOf(o))
PosOf(o) == to_pos(meas, text, LineOf(o), o - LineStart(o))

\* the horiz a vertical move from offset o of region r is to use
HorizOf(r, o) == IF r.horiz.some THEN r.horiz.val ELSE PosOf(o).horiz

CallsPass(calls, h) == \A k \in 1..Len(calls) : calls[k].horiz = h

\* C11: a vertical move of a region with horiz = Some(h) passes h to every
\* from_pos call and returns a region with horiz = Some(h), so that a run of
\* Up/Down moves uses the horiz the region had when the run began; with
\* horiz = None the horiz measured by to_pos is passed and stored.
C11_HorizPreserved ==
    MovedBy({"Up", "Down"}) =>
        LET measured == PosOf(AnchorOffset(Before, mv.op = "Up", mv.modify)).horiz IN
        /\ Before.horiz.some =>
               CallsPass(mv.calls, Before.horiz.val) /\ After.horiz = Before.horiz
        /\ ~Before.horiz.some =>
               CallsPass(mv.calls, measured) /\ After.horiz = Some(measured)
        /\ mv.anchor.some =>
               CallsPass(mv.calls, mv.anchor.val) /\ After.horiz = mv.anchor

\* the second Down of a run was asked with the anchor of the run, which is
\* not the horiz of the place it went to
C11_Witness ==
    /\ MovedBy({"Down"})
    /\ mv.run = 2
    /\ mv.anchor.some
    /\ Len(mv.calls) = 1
    /\ mv.calls[1].horiz = mv.anchor.val
    /\ PosOf(After.end).horiz # mv.anchor.val
    /\ PosOf(AnchorOffset(Before, FALSE, mv.modify)).horiz # mv.anchor.val

\* C12: Left without modify on a region that is not a caret gives the caret
\* at region.min(), Right the caret at region.max(), whichever end is the
\* active one; start = 5, end = 2 moved Left gives the caret 2.
C12_CollapseToEdge ==
    (MovedBy({"Left", "Right"}) /\ ~mv.modify /\ ~is_caret(Before)) =>
        LET edge == IF mv.op = "Left" THEN region_min(Before) ELSE region_max(Before) IN
        /\ After.start = edge
        /\ After.end = edge
        /\ (mv.op = "Left" /\ Before.start = 5 /\ Before.end = 2) =>
               After.start = 2 /\ After.end = 2

\* the region start = 5, end = 2 was moved Left
C12_Witness ==
    /\ MovedBy({"Left"})
    /\ ~mv.modify
    /\ Before.start = 5
    /\ Before.end = 2
    /\ After.start = 2
    /\ After.end = 2

\* C13: Left/Right on a caret or with modify: with no grapheme boundary in
\* the direction of the move the offset is the document boundary and horiz
\* is kept; every other Left/Right move returns horiz = None.
C13_HorizOnLeftRight ==
    MovedBy({"Left", "Right"}) =>
        LET stuck == /\ is_caret(Before) \/ mv.modify
                     /\ Before.end = (IF mv.op = "Left" THEN 0 ELSE Len(text)) IN
        /\ stuck => After.end = Before.end /\ After.horiz = Before.horiz
        /\ ~stuck => After.horiz = None

\* Right at the end of a text with a horiz to keep
C13_Witness ==
    /\ MovedBy({"Right"})
    /\ Len(text) > 0
    /\ is_caret(Before)
    /\ Before.end = Len(text)
    /\ Before.horiz.some
    /\ After.end = Len(text)
    /\ After.horiz = Before.horiz

\* C14: Up from the anchor offset a (end with modify, else region.min()) on
\* logical line l at visual line v: line_start(l) + from_pos(l, horiz, v - 1)
\* if v > 0; else 0 if l = 0; else line_start(l - 1) + from_pos(l - 1,
\* horiz, n_visual_lines(l - 1) - 1).
C14_Up ==
    MovedBy({"Up"}) =>
        LET a == AnchorOffset(Before, TRUE, mv.modify)
            l == LineOf(a)
            v == PosOf(a).line
            h == HorizOf(Before, a) IN
        After.end =
            IF v > 0 THEN LineStart(a) + from_pos(meas, text, l, h, v - 1)
            ELSE IF l = 0 THEN 0
            ELSE offset_of_line(text, l - 1)
                     + from_pos(meas, text, l - 1, h,
                                n_visual_lines(meas, text, l - 1) - 1)

\* Up from the second logical line went to the second visual line of the
\* first, and not to its start
C14_Witness ==
    /\ MovedBy({"Up"})
    /\ LineOf(AnchorOffset(Before, TRUE, mv.modify)) = 1
    /\ n_visual_lines(meas, text, 0) = 2
    /\ Len(mv.calls) = 1
    /\ mv.calls[1].line_num = 0
    /\ mv.calls[1].visual_line = 1
    /\ After.end > 0

\* C15: Down from the anchor offset a (end with modify, else region.max())
\* on logical line l at visual line v: line_start(l) + from_pos(l, horiz,
\* v + 1) if v + 1 < n_visual_lines(l); else line_start(l + 1) +
\* from_pos(l + 1, horiz, 0) if there is a next logical line; else the
\* length of the text, with no from_pos call.
C15_Down ==
    MovedBy({"Down"}) =>
        LET a == AnchorOffset(Before, FALSE, mv.modify)
            l == LineOf(a)
            v == PosOf(a).line
            h == HorizOf(Before, a) IN
        IF v + 1 < n_visual_lines(meas, text, l)
        THEN After.end = LineStart(a) + from_pos(meas, text, l, h, v + 1)
        ELSE IF l < Newlines(text, Len(text))
        THEN After.end = offset_of_line(text, l + 1) + from_pos(meas, text, l + 1, h, 0)
        ELSE After.end = Len(text) /\ mv.calls = <<>>

\* Down from the first logical line went into the second, behind its start
C15_Witness ==
    /\ MovedBy({"Down"})
    /\ LineOf(AnchorOffset(Before, FALSE, mv.modify)) = 0
    /\ Len(mv.calls) = 1
    /\ mv.calls[1].line_num = 1
    /\ mv.calls[1].visual_line = 0
    /\ After.end > offset_of_line(text, 1)

\* C16: for Left, Right, Up and Down with the new offset n: with modify the
\* region returned has the start of the region moved and end = n; without,
\* it is the caret start = end = n.
C16_ModifyKeepsStart ==
    MovedBy({"Left", "Right", "Up", "Down"}) =>
        LET n == move_match(mv.op, Before, text, meas, mv.modify, FALSE).offset IN
        /\ After.end = n
        /\ After.start = IF mv.modify THEN Before.start ELSE n

\* a move with modify left start where it was and took end elsewhere
C16_Witness ==
    /\ MovedBy({"Left", "Right", "Up", "Down"})
    /\ mv.modify
    /\ After.start = Before.start
    /\ After.end # Before.end
    /\ After.end # After.start

Implemented == {"Left", "Right", "Up", "Down"}

\* C17: update_region with a movement other than Left, Right, Up and Down
\* panics: update_selection on a selection that holds a region returns
\* nothing, neither a moved region nor the region it was given.
C17_TodoPanics ==
    (mv.op \in Movements \ Implemented /\ mv.before # <<>>) =>
        mv.fault = "todo" /\ sel = <<>>

\* a movement by a word was asked for a selection of one region
C17_Witness ==
    /\ mv.op = "LeftWord"
    /\ mv.before # <<>>
    /\ mv.fault = "todo"

----------------------------------------------------------------------------
(* Claims about chunked iteration *)

Yielded == Flatten(it.yielded)

\* C18: iterating the chunks of [start, end) ends after at most one call of
\* next() per leaf and one more, never panics, returns only non-empty
\* slices, and the slices returned so far are, joined in order, the layouts
\* from start on: all of start..end once next() has returned None.
C18_Chunks ==
    it.active =>
        /\ ~it.panic
        /\ it.steps <= Len(Leaves(rope)) + 1
        /\ \A k \in 1..Len(it.yielded) : it.yielded[k] # <<>>
        /\ Len(Yielded) <= it.iter.end - it.start
        /\ Yielded = SubSeq(list, it.start + 1, it.start + Len(Yielded))
        /\ it.done => Yielded = SubSeq(list, it.start + 1, it.iter.end)

\* an iteration that ended after slices of three leaves, the first and the
\* last of them cut by start and end
C18_Witness ==
    /\ it.done
    /\ Len(it.yielded) >= 3
    /\ it.start > 0
    /\ it.start < Len(Leaves(rope)[1])
    /\ Len(it.yielded[Len(it.yielded)]) < Len(Leaves(rope)[Len(it.yielded)])

----------------------------------------------------------------------------
(* Claims about the methods of a leaf *)

\* the height of the first k layouts of the leaf l
HeightOfFirst(l, k) == SumSeq(SubSeq(l, 1, k))

\* with k layouts counted for the budget b, the layout after them would
\* take the height counted beyond b
Exceeds(l, b, k) == k < Len(l) /\ HeightOfFirst(l, k + 1) > b

\* with k layouts counted for the budget b, nothing of b is left
Exhausted(l, b, k) == k < Len(l) /\ HeightOfFirst(l, k) = b

ToBaseUnitsReturned == lf.op = "to_base_units"

\* C19 as stated: to_base_units(leaf, budget) returns the number of layouts
\* before the first one whose inclusion would make the accumulated height
\* exceed the budget, all of them when there is none.
C19_StopsOnExceed ==
    ToBaseUnitsReturned =>
        /\ lf.result = Len(lf.self) \/ Exceeds(lf.self, lf.arg, lf.result)
        /\ \A k \in 0..(lf.result - 1) : ~Exceeds(lf.self, lf.arg, k)

\* C19, amended: to_base_units(leaf, budget) returns the number of layouts
\* before the first one that is reached with nothing of the budget left or
\* whose height is more than what is left of it, all of them when there is
\* none; from_base_units(leaf, k) is the sum of the first k heights.
C19_Scan ==
    /\ ToBaseUnitsReturned =>
           /\ \/ lf.result = Len(lf.self)
              \/ Exhausted(lf.self, lf.arg, lf.result)
              \/ Exceeds(lf.self, lf.arg, lf.result)
           /\ \A k \in 0..(lf.result - 1) :
                  ~Exhausted(lf.self, lf.arg, k) /\ ~Exceeds(lf.self, lf.arg, k)
    /\ lf.op = "from_base_units" => lf.result = HeightOfFirst(lf.self, lf.arg)

\* a scan that stopped on a layout of no height, after a layout that used
\* up the budget
C19_Witness ==
    /\ ToBaseUnitsReturned
    /\ lf.result > 0
    /\ Exhausted(lf.self, lf.arg, lf.result)
    /\ lf.self[lf.result + 1] = 0

Appended == lf.self \o SubSeq(lf.other, lf.start + 1, lf.end)

\* C20: push_maybe_split leaves in self and in the leaf it returns, in this
\* order, self followed by other[start..end]; it returns no leaf when these
\* are at most MAX_LEAF layouts, and else splits them at half their number;
\* when self and other held at most MAX_LEAF layouts each, both halves hold
\* between MIN_LEAF and MAX_LEAF.
C20_PushMaybeSplit ==
    lf.op = "push_maybe_split" =>
        /\ lf.left \o lf.right = Appended
        /\ lf.split <=> Len(Appended) > MAX_LEAF
        /\ ~lf.split => lf.right = <<>>
        /\ lf.split => Len(lf.left) = Len(Appended) \div 2
        /\ (lf.split /\ Len(lf.self) <= MAX_LEAF /\ Len(lf.other) <= MAX_LEAF) =>
               /\ Len(lf.left) \in MIN_LEAF..MAX_LEAF
               /\ Len(lf.right) \in MIN_LEAF..MAX_LEAF

\* a split of an odd number of layouts, the appended ones from the middle
\* of a leaf, neither leaf longer than MAX_LEAF
C20_Witness ==
    /\ lf.op = "push_maybe_split"
    /\ lf.split
    /\ Len(lf.self) <= MAX_LEAF
    /\ Len(lf.other) <= MAX_LEAF
    /\ lf.start > 0
    /\ lf.end < Len(lf.other)
    /\ Len(lf.right) = Len(lf.left) + 1

----------------------------------------------------------------------------
(* Claims about the widget *)

\* the number of logical lines of a text
LogicalLines(t) == line_of_offset(t, Len(t)) + 1

\* C21: whenever the widget has no update pending, so whenever an edit op
\* is applied and after update_cursors, the layouts are those of the
\* current text, one per logical line and in their order (one for the
\* empty text, one for the empty line behind a last newline); the layout
\* of the line of every offset of the text is found; and no lookup, of
\* update_cursors or of a movement, misses a layout or reads one made from
\* another text.
C21_LayoutsFollowText ==
    /\ wg.fault \notin {"unwrap", "stale"}
    /\ wg.phase = "ready" =>
           /\ wg.laid = text
           /\ rope_len(rope) = LogicalLines(text)
           /\ Elements(rope) = [i \in 1..LogicalLines(text) |->
                                   layout_height(meas, line_len(text, i - 1))]
           /\ \A o \in 0..Len(text) : get(rope, line_of_offset(text, o)).some
           /\ wg.cursors = [i \in 1..Len(sel) |-> line_of_offset(text, sel[i].end)]

\* the widget, updated after an Insert, with the caret on the empty line
\* behind the last newline of a text of several lines
C21_Witness ==
    /\ wg.phase = "ready"
    /\ wg.last = "Insert"
    /\ Len(text) > 1
    /\ text[Len(text)] = "\n"
    /\ sel = <<Caret(Len(text))>>
    /\ rope_len(rope) >= 3

----------------------------------------------------------------------------
(* Claims about the indices of vertical movement.  In a step of a movement *)
(* the unprimed text, sel and meas are what the movement was applied to and *)
(* mv' is its record.                                                       *)

\* every logical line of the text reports a visual line
AllVisible ==
    \A k \in 0..(LogicalLines(text) - 1) : n_visual_lines(meas, text, k) >= 1

\* to_pos gives every offset a visual line its logical line has
ToPosBelow ==
    \A o \in 0..Len(text) : PosOf(o).line < n_visual_lines(meas, text, LineOf(o))

\* the from_pos call is for a logical line of the text and a visual line
\* that line has
InRange(c) ==
    /\ c.line_num \in 0..(LogicalLines(text) - 1)
    /\ c.visual_line \in 0..(n_visual_lines(meas, text, c.line_num) - 1)

\* a subtraction of the movement went below 0: the build trapped it, or the
\* wrapped value was passed on
Underflowed(m) ==
    \/ m.fault = "overflow"
    \/ \E k \in 1..Len(m.calls) : m.calls[k].visual_line < 0 \/ m.calls[k].line_num < 0

\* the movement was Up from the first visual line of a logical line behind
\* one that reports no visual line
FromBehindNoLine(m) ==
    /\ m.op = "Up"
    /\ LET a == AnchorOffset(sel[1], TRUE, m.modify) IN
       /\ PosOf(a).line = 0
       /\ LineOf(a) > 0
       /\ n_visual_lines(meas, text, LineOf(a) - 1) = 0

C22_Step ==
    (mv'.op \in {"Up", "Down"} /\ sel # <<>>) =>
        /\ (AllVisible /\ ToPosBelow) =>
               /\ mv'.fault = "none"
               /\ \A k \in 1..Len(mv'.calls) : InRange(mv'.calls[k])
        /\ Underflowed(mv') => FromBehindNoLine(mv')

\* C22: when every logical line reports at least one visual line and
\* to_pos gives a visual line below that number, every from_pos call of Up
\* and Down is for a logical line of the text and a visual line below the
\* number that line reports, and no subtraction goes below 0; one does only
\* in n_lines - 1 of Up, when the previous line reports no visual line.
C22_IndicesInRange == [][C22_Step]_vars

\* Up from the second logical line to the only visual line of the first:
\* n_lines - 1 is 0
C22_Witness ==
    /\ MovedBy({"Up"})
    /\ AllVisible
    /\ ToPosBelow
    /\ LineOf(AnchorOffset(Before, TRUE, mv.modify)) = 1
    /\ n_visual_lines(meas, text, 0) = 1
    /\ mv.calls = <<FromPosCall(0, HorizOf(Before, AnchorOffset(Before, TRUE, mv.modify)), 0)>>

====
